---- MODULE Spec2Model ----
(***************************************************************************)
(* Progress persistence and synchronisation of the EBookReader:            *)
(*   - the server's tiered cache (Redis primary, in-process fallback map)  *)
(*     and the session helpers built on it (cacheManager),                 *)
(*   - the client's local durable store (cacheService over localStorage),  *)
(*   - the client's sync reconciler (syncService) and the reading store    *)
(*     that drives both (store/index.ts).                                  *)
(* Times are milliseconds, as Date.now() returns them; TTLs are seconds,   *)
(* as the cache API takes them.                                            *)
(***************************************************************************)
EXTENDS Integers, Sequences, FiniteSets, TLC

(***************************************************************************)
(* Bounds of the exploration.                                              *)
(***************************************************************************)
MaxOps == 4
MaxSessionOps == 3
MaxSteps == 3
MaxFlips == 1

(***************************************************************************)
(* Program constants of the cache manager.                                 *)
(***************************************************************************)
SESSION_TTL == 60 * 60 * 24
INACTIVE_TTL == 60 * 10
SWEEP_INTERVAL_MS == 60 * 1000

BOOK_TTL == 60 * 60 * 24

SessionIds == {"s1", "s2"}
Subjects == {"s1"}
Bodies == {"a", "b"}
NoActivity == -1

\* CACHE_KEYS.SESSION
SessionKey(id) == <<"session", id>>

\* CACHE_KEYS.BOOK
BookKey == <<"book", "b1">>

Keys == {SessionKey(id) : id \in SessionIds} \cup {BookKey}

\* the ttl arguments of the callers of set
TTLs == {INACTIVE_TTL, BOOK_TTL}

\* session payloads: the data of the session and the lastActivity stamp that
\* updateActivityTimestamp spreads into it
Values == [body : Bodies, lastActivity : {NoActivity}]

SessionValues == [body : {"a"}, lastActivity : {NoActivity}]

Null == [body |-> "null", lastActivity |-> NoActivity]

\* JSON.stringify / JSON.parse of a payload: a session or a progress record
Stringify(v) ==
    IF "bookId" \in DOMAIN v
    THEN <<"json", v.bookId, v.currentPage, v.totalPages, v.percentage,
           v.lastRead, v.bookmarks>>
    ELSE <<"json", v.body, v.lastActivity>>

Parse(d) ==
    IF Len(d) = 7
    THEN [bookId |-> d[2], currentPage |-> d[3], totalPages |-> d[4],
          percentage |-> d[5], lastRead |-> d[6], bookmarks |-> d[7]]
    ELSE [body |-> d[2], lastActivity |-> d[3]]

\* the lengths of time the clock advances by between two operations
HALF_STEP == 30000
QuietSweeps == {(INACTIVE_TTL * 1000) \div SWEEP_INTERVAL_MS,
                (SESSION_TTL * 1000) \div SWEEP_INTERVAL_MS - 1}

VARIABLES
    \* ---- server: cacheManager ----
    client,        \* the Redis client has been created
    isConnected,   \* the connectivity flag kept by the client's callbacks
    primaryUp,     \* the Redis server is reachable (environment)
    primary,       \* the keys Redis holds: key -> [data, expiry]
    memoryCache,   \* the fallback Map: key -> [data, expiry]
    now,           \* Date.now() of the server
    nextSweep,     \* when the setInterval callback is due next
    pending,       \* session id -> the markInactive / touch awaiting its write
    lastOp,        \* the last cache call and what it returned
    \* ---- history of the server ----
    setLog,        \* key -> the last value set and when its ttl elapses
    sess,          \* session id -> creation, idling and touching history
    ups,           \* times the primary came back after having been down
    nOps, nSteps, nFlips,
    \* ---- server: the progress routes of /auth ----
    dbProgress,    \* the reading_progress table: <<user_id, book_id>> -> row
    response,      \* the last request to a progress route and its answer
    nReqs

syncVars == <<dbProgress, response, nReqs>>

serverVars == <<client, isConnected, primaryUp, primary, memoryCache, now,
                nextSweep, pending, lastOp, setLog, sess, ups,
                nOps, nSteps, nFlips, syncVars>>

VARIABLES
    \* ---- client: localStorage (cacheService) ----
    lsProgress,      \* bookId -> the progress record stored under progress_<id>
    lsRecent,        \* the recent_books list
    lsBookmarks,     \* bookId -> the list stored under bookmarks_<id>
    lsSettings,      \* what is stored under the settings key
    \* ---- client: the reading store ----
    currentBook, currentPage, totalPages, bookmarks, isAuthenticated,
    lastSaveTime,
    \* ---- client: syncService and the remote boundary ----
    lastCloudPush,   \* the push throttle stamp
    inflight,        \* the remote calls awaiting their response
    cloud,           \* the remote progress set of the user: bookId -> record
    clock,           \* Date.now() of the device
    \* ---- history of the client ----
    syncCall,        \* the sync call made or completed by the last step
    lastSaved,       \* the last saveReadingProgress call of the last step
    unhandled,       \* a rejection reached the user interface
    lastOneAt,       \* when pushSingleProgress last sent
    allSince,        \* pushAllProgress completed since then
    lastAllAt,       \* when pushAllProgress last completed
    lastOneOkAt,     \* when the last pushSingleProgress that succeeded was called
    recency,         \* the books added or saved, most recent first
    fillers,         \* how many filler books were added to the recent list
    markOp,          \* the last bookmark or clear-all call, and how many so far
    hook,            \* useReadingProgress: mounted, its timer and its effect
    nEvents          \* the calls, clock steps and remote pushes made so far

clientVars == <<lsProgress, lsRecent, lsBookmarks, currentBook, currentPage,
                totalPages, bookmarks, isAuthenticated, lastSaveTime,
                lastCloudPush, inflight, cloud, clock, syncCall, lastSaved,
                unhandled, lastOneAt, allSince, lastAllAt, lastOneOkAt,
                recency, fillers, lsSettings, markOp, hook, nEvents>>

vars == <<serverVars, clientVars>>

(***************************************************************************)
(* cacheManager: get / set / del                                           *)
(***************************************************************************)
Entry(d, e) == [data |-> d, expiry |-> e]

Without(m, k) == [x \in (DOMAIN m) \ {k} |-> m[x]]

With(m, k, e) == [x \in (DOMAIN m) \cup {k} |-> IF x = k THEN e ELSE m[x]]

\* client.get: Redis answers nil for a key it does not hold or that has expired
PrimaryGet(k) ==
    IF k \in DOMAIN primary /\ primary[k].expiry > now
    THEN Parse(primary[k].data)
    ELSE Null

FallbackGet_Inclusive(k) ==
    IF k \in DOMAIN memoryCache /\ memoryCache[k].expiry >= now
    THEN [val |-> Parse(memoryCache[k].data), mem |-> memoryCache]
    ELSE [val |-> Null, mem |-> Without(memoryCache, k)]

\* the fallback branch of get
FallbackGet(k) ==
    IF k \in DOMAIN memoryCache /\ memoryCache[k].expiry > now
    THEN [val |-> Parse(memoryCache[k].data), mem |-> memoryCache]
    ELSE [val |-> Null, mem |-> Without(memoryCache, k)]

\* get(key); primOK: the call to the primary does not fail
CacheGet_NoCatch(k, primOK) ==
    IF isConnected /\ client
    THEN IF primOK
         THEN [threw |-> FALSE, val |-> PrimaryGet(k), mem |-> memoryCache,
               tier |-> "primary"]
         ELSE [threw |-> TRUE, val |-> Null, mem |-> memoryCache,
               tier |-> "primary"]
    ELSE [threw |-> FALSE, val |-> FallbackGet(k).val,
          mem |-> FallbackGet(k).mem, tier |-> "fallback"]

CacheGet(k, primOK) ==
    IF isConnected /\ client /\ primOK
    THEN [threw |-> FALSE, val |-> PrimaryGet(k), mem |-> memoryCache,
          tier |-> "primary"]
    ELSE [threw |-> FALSE, val |-> FallbackGet(k).val,
          mem |-> FallbackGet(k).mem, tier |-> "fallback"]

\* set(key, value, ttl) on the tiers prim and mem
CacheSetOn(prim, mem, k, v, ttl, primOK) ==
    IF isConnected /\ client /\ primOK
    THEN [threw |-> FALSE, tier |-> "primary",
          prim |-> With(prim, k, Entry(Stringify(v), now + ttl * 1000)),
          mem |-> mem]
    ELSE [threw |-> FALSE, tier |-> "fallback",
          prim |-> prim,
          mem |-> With(mem, k, Entry(Stringify(v), now + ttl * 1000))]

\* set(key, value, ttl)
CacheSet(k, v, ttl, primOK) ==
    CacheSetOn(primary, memoryCache, k, v, ttl, primOK)

\* del(key)
CacheDel(k, primOK) ==
    IF isConnected /\ client /\ primOK
    THEN [threw |-> FALSE, tier |-> "primary",
          prim |-> Without(primary, k), mem |-> Without(memoryCache, k)]
    ELSE [threw |-> FALSE, tier |-> "fallback",
          prim |-> primary, mem |-> Without(memoryCache, k)]


(***************************************************************************)
(* History kept for the properties.                                        *)
(***************************************************************************)
NoOp == [op |-> "none", key |-> BookKey, val |-> Null,
         tier |-> "none", threw |-> FALSE, ttl |-> 0]

Op(o, k, v, r, t) == [op |-> o, key |-> k, val |-> v,
                      tier |-> r.tier, threw |-> r.threw, ttl |-> t]

NoPending == [op |-> "none", data |-> Null]

NoSession == [created |-> -1, body |-> "null", idled |-> -1, touched |-> FALSE]

Logged(k, v, ttl) == With(setLog, k, [val |-> v, until |-> now + ttl * 1000])

ServerInit ==
    /\ client = TRUE
    /\ primaryUp \in BOOLEAN
    /\ isConnected = primaryUp
    /\ primary = << >>
    /\ memoryCache = << >>
    /\ now = 0
    /\ nextSweep = SWEEP_INTERVAL_MS
    /\ pending = [s \in SessionIds |-> NoPending]
    /\ lastOp = NoOp
    /\ setLog = << >>
    /\ sess = [s \in SessionIds |-> NoSession]
    /\ ups = 0
    /\ nOps = 0 /\ nSteps = 0 /\ nFlips = 0
    /\ dbProgress = << >>
    /\ response = [route |-> "none"]
    /\ nReqs = 0

(***************************************************************************)
(* The calls of the cache API.                                             *)
(***************************************************************************)
DoGet(k) ==
    LET r == CacheGet(k, primaryUp) IN
    /\ memoryCache' = r.mem
    /\ lastOp' = Op("get", k, r.val, r, 0)
    /\ UNCHANGED primary

DoSet(k, v, ttl) ==
    LET r == CacheSet(k, v, ttl, primaryUp) IN
    /\ primary' = r.prim
    /\ memoryCache' = r.mem
    /\ lastOp' = Op("set", k, v, r, ttl)
    /\ setLog' = Logged(k, v, ttl)

DoDel(k) ==
    LET r == CacheDel(k, primaryUp) IN
    /\ primary' = r.prim
    /\ memoryCache' = r.mem
    /\ lastOp' = Op("del", k, Null, r, 0)
    /\ setLog' = Without(setLog, k)

Counted ==
    /\ nOps < MaxOps
    /\ nOps' = nOps + 1

SessionCounted ==
    /\ nOps < MaxSessionOps
    /\ nOps' = nOps + 1

ServerFrame ==
    UNCHANGED <<client, isConnected, primaryUp, now, nextSweep, ups, nSteps,
                nFlips, syncVars, clientVars>>

\* get(key) of a cached book
Get(k) ==
    /\ Counted
    /\ DoGet(k)
    /\ ServerFrame
    /\ UNCHANGED <<setLog, sess, pending>>

\* set(key, value, ttl) of a cached book
Set(k, v, ttl) ==
    /\ Counted
    /\ DoSet(k, v, ttl)
    /\ ServerFrame
    /\ UNCHANGED <<sess, pending>>

\* del(key)
Del(k) ==
    /\ Counted
    /\ DoDel(k)
    /\ ServerFrame
    /\ UNCHANGED <<sess, pending>>

(***************************************************************************)
(* Session helpers.                                                        *)
(***************************************************************************)
\* setSessionData(sessionId, data)
SetSessionData(s, v) ==
    /\ SessionCounted
    /\ DoSet(SessionKey(s), v, SESSION_TTL)
    /\ sess' = [sess EXCEPT ![s] = [created |-> now, body |-> v.body,
                                    idled |-> -1, touched |-> FALSE]]
    /\ ServerFrame
    /\ UNCHANGED pending

\* getSessionData(sessionId)
GetSessionData(s) ==
    /\ SessionCounted
    /\ DoGet(SessionKey(s))
    /\ ServerFrame
    /\ UNCHANGED <<setLog, sess, pending>>

\* deleteSession(sessionId)
DeleteSession(s) ==
    /\ SessionCounted
    /\ DoDel(SessionKey(s))
    /\ sess' = [sess EXCEPT ![s].touched = TRUE]
    /\ ServerFrame
    /\ UNCHANGED pending

\* the first await of updateActivityTimestamp / markInactive: the read
BeginOn(s, o) ==
    /\ SessionCounted
    /\ pending[s] = NoPending
    /\ DoGet(SessionKey(s))
    /\ pending' = [pending EXCEPT ![s] =
                      IF CacheGet(SessionKey(s), primaryUp).val # Null
                      THEN [op |-> o, data |-> CacheGet(SessionKey(s), primaryUp).val]
                      ELSE NoPending]
    /\ ServerFrame
    /\ UNCHANGED setLog

UpdateActivityRead(s) ==
    /\ BeginOn(s, "touch")
    /\ sess' = [sess EXCEPT ![s].touched = TRUE]

MarkInactiveRead(s) ==
    /\ BeginOn(s, "idle")
    /\ sess' = [sess EXCEPT ![s].idled = now]

UpdateActivityWrite_InactiveTTL(s) ==
    /\ pending[s].op = "touch"
    /\ DoSet(SessionKey(s), [pending[s].data EXCEPT !.lastActivity = now],
             INACTIVE_TTL)
    /\ pending' = [pending EXCEPT ![s] = NoPending]
    /\ ServerFrame
    /\ UNCHANGED <<sess, nOps>>

\* the second await: the write of what was read
UpdateActivityWrite(s) ==
    /\ pending[s].op = "touch"
    /\ DoSet(SessionKey(s), [pending[s].data EXCEPT !.lastActivity = now],
             SESSION_TTL)
    /\ pending' = [pending EXCEPT ![s] = NoPending]
    /\ ServerFrame
    /\ UNCHANGED <<sess, nOps>>

MarkInactiveWrite(s) ==
    /\ pending[s].op = "idle"
    /\ DoSet(SessionKey(s), pending[s].data, INACTIVE_TTL)
    /\ pending' = [pending EXCEPT ![s] = NoPending]
    /\ sess' = [sess EXCEPT ![s].idled = now]
    /\ ServerFrame
    /\ UNCHANGED nOps

(***************************************************************************)
(* The primary and the callbacks of its client.                            *)
(***************************************************************************)
Flipped ==
    /\ nFlips < MaxFlips
    /\ nFlips' = nFlips + 1

EnvFrame ==
    /\ lastOp' = NoOp
    /\ UNCHANGED <<client, primary, memoryCache, now, nextSweep, pending,
                   setLog, sess, nOps, nSteps, syncVars, clientVars>>

PrimaryFail ==
    /\ primaryUp
    /\ Flipped
    /\ primaryUp' = FALSE
    /\ EnvFrame
    /\ UNCHANGED <<isConnected, ups>>

PrimaryRecover ==
    /\ ~primaryUp
    /\ Flipped
    /\ primaryUp' = TRUE
    /\ ups' = ups + 1
    /\ EnvFrame
    /\ UNCHANGED isConnected

\* client.on('error')
ErrorCallback ==
    /\ client /\ ~primaryUp /\ isConnected
    /\ isConnected' = FALSE
    /\ EnvFrame
    /\ UNCHANGED <<primaryUp, ups, nFlips>>

\* client.on('connect')
ConnectCallback ==
    /\ client /\ primaryUp /\ ~isConnected
    /\ isConnected' = TRUE
    /\ EnvFrame
    /\ UNCHANGED <<primaryUp, ups, nFlips>>

(***************************************************************************)
(* Time and the periodic sweep.                                            *)
(***************************************************************************)
Stepped ==
    /\ nSteps < MaxSteps
    /\ nSteps' = nSteps + 1

TimeFrame ==
    /\ lastOp' = NoOp
    /\ UNCHANGED <<client, isConnected, primaryUp, primary, pending,
                   setLog, sess, ups, nOps, nFlips, syncVars, clientVars>>

\* half a sweep interval, or up to the moment the next sweep is due
TickSteps == {HALF_STEP, nextSweep - now} \ {0}

Tick(d) ==
    /\ Stepped
    /\ now + d <= nextSweep
    /\ now' = now + d
    /\ TimeFrame
    /\ UNCHANGED <<memoryCache, nextSweep>>

\* what the setInterval callback leaves of the map at time t
Swept(m, t) == [k \in {x \in DOMAIN m : ~(m[x].expiry < t)} |-> m[k]]

\* the setInterval callback
Sweep ==
    /\ now = nextSweep
    /\ memoryCache' = Swept(memoryCache, now)
    /\ nextSweep' = now + SWEEP_INTERVAL_MS
    /\ TimeFrame
    /\ UNCHANGED <<now, nSteps>>

\* n sweep intervals during which no call is made: the callback runs at each
Quiet(n) ==
    /\ Stepped
    /\ \A s \in SessionIds : pending[s] = NoPending
    /\ now + SWEEP_INTERVAL_MS = nextSweep
    /\ now' = now + n * SWEEP_INTERVAL_MS
    /\ memoryCache' = Swept(memoryCache, now + n * SWEEP_INTERVAL_MS)
    /\ nextSweep' = now + (n + 1) * SWEEP_INTERVAL_MS
    /\ TimeFrame

(***************************************************************************)
(* Client: constants and inputs.                                           *)
(***************************************************************************)
CLOUD_PUSH_THROTTLE_MS == 30000
SAVE_THROTTLE_MS == 5000
RECENT_CAP == 20

MaxClientEvents == 6
MaxInflight == 1
MaxRecentOps == 3
MaxMarkOps == 3
MaxMarkSteps == 5
MaxHookEvents == 5
MaxHookTicks == 4
NumBooks == 23
ClockStart == 100000

NoBook == 0
Books == {1, 2}
FillerBooks == 3 .. NumBooks

\* book.pageCount, 0 where the source of the book gives none
PageCount(b) == IF b = 1 THEN 8 ELSE 0

PageChoices == {1, 2}
\* the page the other device is at
RemotePages == {2}
TotalChoices == {0, 3}
\* the bookmarks of the records of the other device: one bookmark, made there
\* on page 2
BookmarkLists ==
    {<<[id |-> <<"bookmark_", 1>>, page |-> 2, note |-> "undefined",
        createdAt |-> <<"iso", 1>>]>>}
ClientTickSteps == {1, CLOUD_PUSH_THROTTLE_MS - 1}
\* how far the clock of the other device is ahead of this one's
ClockSkews == {0}
AheadSkews == {2 * CLOUD_PUSH_THROTTLE_MS}

\* Date.prototype.toISOString and new Date(string)
ToISOString(t) == <<"iso", t>>

DateOf(str) == str[2]

\* Math.round((n / d) * 100) for d > 0
MathRoundPercent_Floor(n, d) == (100 * n) \div d

MathRoundPercent(n, d) == (200 * n + d) \div (2 * d)

\* the record saveProgress builds
MakeProgress(b, p, t, bms, at) ==
    [bookId |-> b, currentPage |-> p, totalPages |-> t,
     percentage |-> MathRoundPercent(p, t),
     lastRead |-> ToISOString(at), bookmarks |-> bms]

(***************************************************************************)
(* cacheService: the recent-books list and the progress records.           *)
(***************************************************************************)
\* Array.prototype.findIndex on book.id; 0 for not found
IndexOf(list, b) ==
    IF \E i \in 1 .. Len(list) : list[i].id = b
    THEN CHOOSE i \in 1 .. Len(list) :
            /\ list[i].id = b
            /\ \A j \in 1 .. (i - 1) : list[j].id # b
    ELSE 0

RemoveAt(list, i) == SubSeq(list, 1, i - 1) \o SubSeq(list, i + 1, Len(list))

Slice(list, n) == SubSeq(list, 1, IF Len(list) < n THEN Len(list) ELSE n)

UpdateRecentBooks_InPlace(recent, b, pct, at) ==
    LET i == IndexOf(recent, b) IN
    IF i # 0
    THEN Slice([recent EXCEPT ![i] = [recent[i] EXCEPT
                                         !.lastRead = ToISOString(at),
                                         !.progress = pct]], RECENT_CAP)
    ELSE Slice(recent, RECENT_CAP)

\* updateRecentBooks(bookId, progress)
UpdateRecentBooks(recent, b, pct, at) ==
    LET i == IndexOf(recent, b) IN
    IF i # 0
    THEN Slice(<<[recent[i] EXCEPT !.lastRead = ToISOString(at),
                                   !.progress = pct]>>
               \o RemoveAt(recent, i), RECENT_CAP)
    ELSE Slice(recent, RECENT_CAP)

AddToRecent_Append(recent, b, at) ==
    Slice(<<[id |-> b, lastRead |-> ToISOString(at), progress |-> 0]>>
          \o recent, RECENT_CAP)

\* addToRecentBooks(book)
AddToRecent(recent, b, at) ==
    LET i == IndexOf(recent, b) IN
    IF i # 0
    THEN Slice(<<[recent[i] EXCEPT !.lastRead = ToISOString(at)]>>
               \o RemoveAt(recent, i), RECENT_CAP)
    ELSE Slice(<<[id |-> b, lastRead |-> ToISOString(at), progress |-> 0]>>
               \o recent, RECENT_CAP)

\* history: b becomes the most recently added or saved book
Touch(order, b) ==
    <<b>> \o SelectSeq(order, LAMBDA x : x # b)

NoSave == [book |-> NoBook, pct |-> 0, listed |-> FALSE]

Saved(recent, b, rec) ==
    [book |-> b, pct |-> rec.percentage, listed |-> IndexOf(recent, b) # 0]

(***************************************************************************)
(* syncService.                                                            *)
(***************************************************************************)
Adopts_NotStrict(c, snapshot) ==
    \/ c.bookId \notin DOMAIN snapshot
    \/ DateOf(c.lastRead) >= DateOf(snapshot[c.bookId].lastRead)

\* the test of pullAndMergeProgress on one cloud record
Adopts(c, snapshot) ==
    \/ c.bookId \notin DOMAIN snapshot
    \/ DateOf(c.lastRead) > DateOf(snapshot[c.bookId].lastRead)

\* the loop of pullAndMergeProgress from the i-th cloud record on;
\* st: what the calls of saveReadingProgress made so far have left
RECURSIVE MergeFrom(_, _, _, _)
MergeFrom(list, i, snapshot, st) ==
    IF i > Len(list)
    THEN st
    ELSE LET c == list[i] IN
         MergeFrom(list, i + 1, snapshot,
             IF Adopts(c, snapshot)
             THEN [ls |-> With(st.ls, c.bookId, c),
                   recent |-> UpdateRecentBooks(st.recent, c.bookId,
                                                c.percentage, clock),
                   recency |-> Touch(st.recency, c.bookId),
                   saved |-> Saved(st.recent, c.bookId, c),
                   replaced |-> (st.replaced \/ c.bookId \in DOMAIN snapshot)]
             ELSE st)

PushThrottled_Inclusive(t, last) == t - last <= CLOUD_PUSH_THROTTLE_MS

\* the throttle test of pushSingleProgress
PushThrottled(t, last) == t - last < CLOUD_PUSH_THROTTLE_MS

\* POST /auth/sync: every record of the list is stored under its bookId
Upsert(set, list) ==
    [b \in (DOMAIN set) \cup (DOMAIN list) |->
        IF b \in DOMAIN list THEN list[b] ELSE set[b]]

\* the orders in which GET /auth/progress may list the records
Listings(set) ==
    {q \in [1 .. Cardinality(DOMAIN set) -> DOMAIN set] :
        \A i, j \in DOMAIN q : i # j => q[i] # q[j]}

CallerCatches_NotLogin(caller) == caller # "login"

\* the callers of the sync functions in the store all discard a rejection:
\* saveProgress (.catch), login and register (try/catch), restoreSession (.catch)
CallerCatches(caller) ==
    caller \in {"saveProgress", "login", "register", "restoreSession"}

NoCall == [op |-> "none", outcome |-> "none", replaced |-> FALSE]

Call(o, r) == [op |-> o, outcome |-> r, replaced |-> FALSE]

Req(k, c, l) == [kind |-> k, caller |-> c, list |-> l, at |-> clock]

\* localStorage holds nothing under the settings key
NoSettings == [mode |-> "absent"]

\* useReadingProgress is not mounted: no interval, no effect has run, and
\* no record was stored by the effect for a change of page
NoHook == [mounted |-> FALSE, due |-> 0, deps |-> <<NoBook, 0>>, wrote |-> -1]

\* no bookmark call was made yet
NoMark == [n |-> 0, op |-> "none", book |-> NoBook, id |-> <<>>]

ClientInit ==
    /\ lsProgress = << >>
    /\ lsRecent = << >>
    /\ lsBookmarks = << >>
    /\ currentBook = NoBook
    /\ currentPage = 1
    /\ totalPages = 0
    /\ bookmarks = << >>
    /\ isAuthenticated = FALSE
    /\ lastSaveTime = 0
    /\ lastCloudPush = 0
    /\ inflight = << >>
    /\ cloud = << >>
    /\ clock = ClockStart
    /\ syncCall = NoCall
    /\ lastSaved = NoSave
    /\ unhandled = FALSE
    /\ lastOneAt = -1
    /\ allSince = FALSE
    /\ lastAllAt = -1
    /\ lastOneOkAt = -1
    /\ recency = << >>
    /\ fillers = 0
    /\ lsSettings = NoSettings
    /\ markOp = NoMark
    /\ hook = NoHook
    /\ nEvents = 0

Init == ServerInit /\ ClientInit

storeVars == <<currentBook, currentPage, totalPages, bookmarks,
               isAuthenticated, lastSaveTime>>

pushVars == <<lastCloudPush, inflight, lastOneAt, allSince, lastAllAt,
              lastOneOkAt>>

boundVars == <<fillers, lsSettings, markOp, hook>>

\* a call of the user interface, a step of the clock or a push of the other
\* device
UserCounted ==
    /\ nEvents < MaxClientEvents
    /\ nEvents' = nEvents + 1

(***************************************************************************)
(* The reading store.                                                      *)
(***************************************************************************)
\* pushSingleProgress(progress), up to its await
PushSingle(progress) ==
    IF PushThrottled(clock, lastCloudPush)
    THEN /\ syncCall' = Call("pushOne", "false")
         /\ UNCHANGED pushVars
    ELSE /\ Len(inflight) < MaxInflight
         /\ lastCloudPush' = clock
         /\ inflight' = Append(inflight,
                Req("pushOne", "saveProgress",
                    [b \in {progress.bookId} |-> progress]))
         /\ syncCall' = Call("pushOne", "sent")
         /\ lastOneAt' = clock
         /\ allSince' = FALSE
         /\ UNCHANGED <<lastAllAt, lastOneOkAt>>

\* the body of saveProgress, the store holding page as its currentPage
SaveProgressBody_PushBeforeWrite(page) ==
    IF currentBook # NoBook /\ totalPages > 0
    THEN LET progress == MakeProgress(currentBook, page, totalPages,
                                      bookmarks, clock) IN
         IF isAuthenticated /\ PushThrottled(clock, lastCloudPush)
         THEN /\ PushSingle(progress)
              /\ lastSaved' = NoSave
              /\ UNCHANGED <<lsProgress, lsRecent, recency>>
         ELSE /\ lsProgress' = With(lsProgress, currentBook, progress)
              /\ lsRecent' = UpdateRecentBooks(lsRecent, currentBook,
                                               progress.percentage, clock)
              /\ recency' = Touch(recency, currentBook)
              /\ lastSaved' = Saved(lsRecent, currentBook, progress)
              /\ IF isAuthenticated
                 THEN PushSingle(progress)
                 ELSE /\ syncCall' = NoCall
                      /\ UNCHANGED pushVars
    ELSE /\ syncCall' = NoCall
         /\ lastSaved' = NoSave
         /\ UNCHANGED <<lsProgress, lsRecent, recency, pushVars>>

\* saveProgress(): the record is built and stored, then pushed if authenticated
SaveProgressBody(page) ==
    IF currentBook # NoBook /\ totalPages > 0
    THEN LET progress == MakeProgress(currentBook, page, totalPages,
                                      bookmarks, clock) IN
         /\ lsProgress' = With(lsProgress, currentBook, progress)
         /\ lsRecent' = UpdateRecentBooks(lsRecent, currentBook,
                                          progress.percentage, clock)
         /\ recency' = Touch(recency, currentBook)
         /\ lastSaved' = Saved(lsRecent, currentBook, progress)
         /\ IF isAuthenticated
            THEN PushSingle(progress)
            ELSE /\ syncCall' = NoCall
                 /\ UNCHANGED pushVars
    ELSE /\ syncCall' = NoCall
         /\ lastSaved' = NoSave
         /\ UNCHANGED <<lsProgress, lsRecent, recency, pushVars>>

SetCurrentBook(b) ==
    /\ UserCounted
    /\ currentBook' = b
    /\ IF b # NoBook
       THEN /\ bookmarks' = IF b \in DOMAIN lsBookmarks
                            THEN lsBookmarks[b] ELSE << >>
            /\ currentPage' = IF b \in DOMAIN lsProgress
                                 /\ lsProgress[b].currentPage # 0
                              THEN lsProgress[b].currentPage ELSE 1
            /\ totalPages' = IF b \in DOMAIN lsProgress
                                /\ lsProgress[b].totalPages # 0
                             THEN lsProgress[b].totalPages ELSE PageCount(b)
            /\ lsRecent' = AddToRecent(lsRecent, b, clock)
            /\ recency' = Touch(recency, b)
       ELSE UNCHANGED <<bookmarks, currentPage, totalPages, lsRecent, recency>>
    /\ syncCall' = NoCall
    /\ lastSaved' = NoSave
    /\ UNCHANGED <<lsProgress, lsBookmarks, isAuthenticated, lastSaveTime,
                   pushVars, cloud, clock, unhandled, boundVars, serverVars>>

SetCurrentPage(p) ==
    /\ UserCounted
    /\ currentPage' = p
    /\ IF clock - lastSaveTime > SAVE_THROTTLE_MS
       THEN /\ lastSaveTime' = clock
            /\ SaveProgressBody(p)
       ELSE /\ syncCall' = NoCall
            /\ lastSaved' = NoSave
            /\ UNCHANGED <<lastSaveTime, lsProgress, lsRecent, recency,
                           pushVars>>
    /\ UNCHANGED <<lsBookmarks, currentBook, totalPages, bookmarks,
                   isAuthenticated, cloud, clock, unhandled, boundVars,
                   serverVars>>

SetTotalPages(t) ==
    /\ UserCounted
    /\ totalPages' = t
    /\ syncCall' = NoCall
    /\ lastSaved' = NoSave
    /\ UNCHANGED <<lsProgress, lsRecent, lsBookmarks, currentBook, currentPage,
                   bookmarks, isAuthenticated, lastSaveTime, pushVars, cloud,
                   clock, unhandled, recency, boundVars, serverVars>>

SaveProgress ==
    /\ UserCounted
    /\ SaveProgressBody(currentPage)
    /\ UNCHANGED <<lsBookmarks, storeVars, cloud, clock, unhandled, boundVars,
                   serverVars>>

\* the effect of addToRecentBooks on localStorage
AddToRecentBody(b) ==
    /\ lsRecent' = AddToRecent(lsRecent, b, clock)
    /\ recency' = Touch(recency, b)
    /\ syncCall' = NoCall
    /\ lastSaved' = NoSave
    /\ UNCHANGED <<lsProgress, lsBookmarks, storeVars, pushVars, cloud, clock,
                   unhandled, serverVars>>

(***************************************************************************)
(* Authentication and the sync calls it starts.                            *)
(***************************************************************************)
\* pushAllProgress(), up to its await, on the local set ls
PushAllStart(ls, caller, queue) ==
    IF DOMAIN ls # {}
    THEN /\ inflight' = Append(queue, Req("pushAll", caller, ls))
         /\ UNCHANGED <<lastCloudPush, allSince, lastAllAt>>
    ELSE /\ inflight' = queue
         /\ lastCloudPush' = clock
         /\ allSince' = TRUE
         /\ lastAllAt' = clock

AuthFrame ==
    /\ lastSaved' = NoSave
    /\ UNCHANGED <<lsProgress, lsRecent, lsBookmarks, currentBook, currentPage,
                   totalPages, bookmarks, lastSaveTime, cloud, clock,
                   unhandled, lastOneAt, lastOneOkAt, recency, boundVars,
                   serverVars>>

Login ==
    /\ UserCounted
    /\ ~isAuthenticated
    /\ Len(inflight) < MaxInflight
    /\ isAuthenticated' = TRUE
    /\ inflight' = Append(inflight, Req("pull", "login", << >>))
    /\ syncCall' = Call("pull", "sent")
    /\ AuthFrame
    /\ UNCHANGED <<lastCloudPush, allSince, lastAllAt>>

Register ==
    /\ UserCounted
    /\ ~isAuthenticated
    /\ Len(inflight) < MaxInflight
    /\ isAuthenticated' = TRUE
    /\ PushAllStart(lsProgress, "register", inflight)
    /\ syncCall' = Call("pushAll", "sent")
    /\ AuthFrame

RestoreSession ==
    /\ UserCounted
    /\ ~isAuthenticated
    /\ Len(inflight) < MaxInflight
    /\ isAuthenticated' = TRUE
    /\ inflight' = Append(inflight, Req("pull", "restoreSession", << >>))
    /\ syncCall' = Call("pull", "sent")
    /\ AuthFrame
    /\ UNCHANGED <<lastCloudPush, allSince, lastAllAt>>

Logout ==
    /\ UserCounted
    /\ isAuthenticated
    /\ isAuthenticated' = FALSE
    /\ syncCall' = NoCall
    /\ AuthFrame
    /\ UNCHANGED <<lastCloudPush, inflight, allSince, lastAllAt>>

(***************************************************************************)
(* The responses of the remote boundary.                                   *)
(***************************************************************************)
RespondFrame ==
    UNCHANGED <<lsBookmarks, storeVars, clock, lastOneAt, boundVars, nEvents,
                serverVars>>

\* the remote call fails: the sync function rejects to its caller
RespondFailure(i) ==
    /\ i \in 1 .. Len(inflight)
    /\ inflight' = RemoveAt(inflight, i)
    /\ syncCall' = Call(inflight[i].kind, "rejected")
    /\ unhandled' = (unhandled \/ ~CallerCatches(inflight[i].caller))
    /\ lastSaved' = NoSave
    /\ UNCHANGED <<lsProgress, lsRecent, recency, lastCloudPush, allSince,
                   lastAllAt, lastOneOkAt, cloud>>
    /\ RespondFrame

\* GET /auth/progress answers: the rest of pullAndMergeProgress runs, and
\* login goes on to pushAllProgress
PullResponse(i, listing) ==
    /\ i \in 1 .. Len(inflight)
    /\ inflight[i].kind = "pull"
    /\ LET list == [n \in DOMAIN listing |-> cloud[listing[n]]]
           m == MergeFrom(list, 1, lsProgress,
                          [ls |-> lsProgress, recent |-> lsRecent,
                           recency |-> recency, saved |-> NoSave,
                           replaced |-> FALSE])
       IN /\ lsProgress' = m.ls
          /\ lsRecent' = m.recent
          /\ recency' = m.recency
          /\ lastSaved' = m.saved
          /\ IF inflight[i].caller = "login"
             THEN PushAllStart(m.ls, "login", RemoveAt(inflight, i))
             ELSE /\ inflight' = RemoveAt(inflight, i)
                  /\ UNCHANGED <<lastCloudPush, allSince, lastAllAt>>
          /\ syncCall' = [Call("pull", "ok") EXCEPT !.replaced = m.replaced]
    /\ UNCHANGED <<cloud, unhandled, lastOneOkAt>>
    /\ RespondFrame

PushAllResponse_NoStamp(i) ==
    /\ i \in 1 .. Len(inflight)
    /\ inflight[i].kind = "pushAll"
    /\ inflight' = RemoveAt(inflight, i)
    /\ cloud' = Upsert(cloud, inflight[i].list)
    /\ allSince' = TRUE
    /\ lastAllAt' = clock
    /\ syncCall' = Call("pushAll", "ok")
    /\ lastSaved' = NoSave
    /\ UNCHANGED <<lsProgress, lsRecent, recency, unhandled, lastOneOkAt,
                   lastCloudPush>>
    /\ RespondFrame

\* POST /auth/sync answers a pushAllProgress
PushAllResponse(i) ==
    /\ i \in 1 .. Len(inflight)
    /\ inflight[i].kind = "pushAll"
    /\ inflight' = RemoveAt(inflight, i)
    /\ cloud' = Upsert(cloud, inflight[i].list)
    /\ lastCloudPush' = clock
    /\ allSince' = TRUE
    /\ lastAllAt' = clock
    /\ syncCall' = Call("pushAll", "ok")
    /\ lastSaved' = NoSave
    /\ UNCHANGED <<lsProgress, lsRecent, recency, unhandled, lastOneOkAt>>
    /\ RespondFrame

\* POST /auth/sync answers a pushSingleProgress
PushOneResponse(i) ==
    /\ i \in 1 .. Len(inflight)
    /\ inflight[i].kind = "pushOne"
    /\ inflight' = RemoveAt(inflight, i)
    /\ cloud' = Upsert(cloud, inflight[i].list)
    /\ syncCall' = Call("pushOne", "true")
    /\ lastSaved' = NoSave
    /\ lastOneOkAt' = IF inflight[i].at > lastOneOkAt
                      THEN inflight[i].at ELSE lastOneOkAt
    /\ UNCHANGED <<lsProgress, lsRecent, recency, unhandled, lastCloudPush,
                   allSince, lastAllAt>>
    /\ RespondFrame

(***************************************************************************)
(* The environment of the device.                                          *)
(***************************************************************************)
\* another device of the user saves and pushes a record of its own
OtherDevicePush(b, p, t, bms, skew) ==
    /\ UserCounted
    /\ t > 0
    /\ cloud' = With(cloud, b, MakeProgress(b, p, t, bms, clock + skew))
    /\ syncCall' = NoCall
    /\ lastSaved' = NoSave
    /\ UNCHANGED <<lsProgress, lsRecent, lsBookmarks, storeVars, pushVars,
                   clock, unhandled, recency, boundVars, serverVars>>

ClientTick(d) ==
    /\ UserCounted
    /\ clock' = clock + d
    /\ syncCall' = NoCall
    /\ lastSaved' = NoSave
    /\ UNCHANGED <<lsProgress, lsRecent, lsBookmarks, storeVars, pushVars,
                   cloud, unhandled, recency, boundVars, serverVars>>

ClientNext ==
    \/ \E b \in Books : SetCurrentBook(b)
    \/ \E p \in PageChoices : SetCurrentPage(p)
    \/ SaveProgress
    \/ Login
    \/ Register
    \/ RestoreSession
    \/ \E i \in 1 .. MaxInflight : RespondFailure(i)
    \/ \E i \in 1 .. MaxInflight, l \in Listings(cloud) : PullResponse(i, l)
    \/ \E i \in 1 .. MaxInflight : PushAllResponse(i)
    \/ \E i \in 1 .. MaxInflight : PushOneResponse(i)
    \/ \E b \in Books, p \in RemotePages, t \in TotalChoices,
          bms \in BookmarkLists, skew \in ClockSkews :
          OtherDevicePush(b, p, t, bms, skew)
    \/ \E d \in ClientTickSteps : ClientTick(d)

\* the reading store, the sync service and the remote set of one device
ClientSpec == Init /\ [][ClientNext]_vars

\* arguments a caller of setCurrentPage and setTotalPages may pass: the
\* parameters are numbers, nothing narrows them
AnyPages == {-1, 0, 1, 2}
AnyTotals == {-3, 0, 3}

\* the store actions that determine the pages of a record, any arguments
RangeNext ==
    \/ \E b \in Books : SetCurrentBook(b)
    \/ \E p \in AnyPages : SetCurrentPage(p)
    \/ \E t \in AnyTotals : SetTotalPages(t)
    \/ SaveProgress
    \/ \E d \in ClientTickSteps : ClientTick(d)

RangeSpec == Init /\ [][RangeNext]_vars

\* the same, the other device being one whose clock runs ahead
SkewNext ==
    \/ ClientNext
    \/ \E b \in Books, p \in RemotePages, t \in TotalChoices,
          bms \in BookmarkLists, skew \in AheadSkews :
          OtherDevicePush(b, p, t, bms, skew)

SkewSpec == Init /\ [][SkewNext]_vars

(***************************************************************************)
(* The recent-books list on its own: two books added and saved at will,    *)
(* and filler books added once each, in order, to fill the list.           *)
(***************************************************************************)
RecentCounted ==
    /\ nEvents < MaxRecentOps
    /\ nEvents' = nEvents + 1

\* addToRecentBooks(book)
AddToRecentBooks(b) ==
    /\ RecentCounted
    /\ AddToRecentBody(b)
    /\ UNCHANGED boundVars

AddFiller ==
    /\ 3 + fillers \in FillerBooks
    /\ fillers' = fillers + 1
    /\ AddToRecentBody(3 + fillers)
    /\ UNCHANGED <<lsSettings, markOp, hook, nEvents>>

\* saveReadingProgress(bookId, progress)
SaveReadingProgress(b, p, t) ==
    /\ RecentCounted
    /\ t > 0
    /\ LET progress == MakeProgress(b, p, t, << >>, clock) IN
       /\ lsProgress' = With(lsProgress, b, progress)
       /\ lsRecent' = UpdateRecentBooks(lsRecent, b, progress.percentage, clock)
       /\ recency' = Touch(recency, b)
       /\ lastSaved' = Saved(lsRecent, b, progress)
    /\ syncCall' = NoCall
    /\ UNCHANGED <<lsBookmarks, storeVars, pushVars, cloud, clock, unhandled,
                   boundVars, serverVars>>

RecentNext ==
    \/ \E b \in Books : AddToRecentBooks(b)
    \/ AddFiller
    \/ \E b \in Books, p \in PageChoices, t \in TotalChoices :
          SaveReadingProgress(b, p, t)

RecentSpec == Init /\ [][RecentNext]_vars

(***************************************************************************)
(* Bookmarks: the hook's addBookmark / removeBookmark, the store behind    *)
(* them and the bookmarks_<id> keys of localStorage, with the settings key *)
(* and the clear-all operation.                                            *)
(***************************************************************************)
\* the note and the settings a call may carry
Notes == {"undefined"}
Modes == {"day", "night"}

\* getBookmarks(bookId)
GetBookmarks(b) == IF b \in DOMAIN lsBookmarks THEN lsBookmarks[b] ELSE << >>

\* the bookmark the hook builds: `bookmark_${Date.now()}`
NewBookmark(page, note, at) ==
    [id |-> <<"bookmark_", at>>, page |-> page, note |-> note,
     createdAt |-> ToISOString(at)]

\* list.filter((b) => b.id !== bookmarkId)
FilterBookmarks_KeepOnly(list, id) == SelectSeq(list, LAMBDA b : b.id = id)

FilterBookmarks(list, id) == SelectSeq(list, LAMBDA b : b.id # id)

MarkCounted(op, b, id) ==
    /\ markOp.n < MaxMarkOps
    /\ markOp' = [n |-> markOp.n + 1, op |-> op, book |-> b, id |-> id]

MarkFrame ==
    /\ syncCall' = NoCall
    /\ lastSaved' = NoSave
    /\ UNCHANGED <<currentBook, currentPage, totalPages, isAuthenticated,
                   lastSaveTime, pushVars, cloud, clock, unhandled, fillers,
                   hook, nEvents, serverVars>>

\* addBookmark(note) of the hook, storeAddBookmark and saveBookmark
AddBookmark(note) ==
    /\ currentBook # NoBook
    /\ LET bookmark == NewBookmark(currentPage, note, clock) IN
       /\ MarkCounted("add", currentBook, bookmark.id)
       /\ bookmarks' = Append(bookmarks, bookmark)
       /\ lsBookmarks' = With(lsBookmarks, currentBook,
                              Append(GetBookmarks(currentBook), bookmark))
    /\ MarkFrame
    /\ UNCHANGED <<lsProgress, lsRecent, lsSettings, recency>>

\* removeBookmark(bookmarkId) of the hook, the store and cacheService
RemoveBookmark(id) ==
    /\ currentBook # NoBook
    /\ MarkCounted("remove", currentBook, id)
    /\ bookmarks' = FilterBookmarks(bookmarks, id)
    /\ lsBookmarks' = With(lsBookmarks, currentBook,
                           FilterBookmarks(GetBookmarks(currentBook), id))
    /\ MarkFrame
    /\ UNCHANGED <<lsProgress, lsRecent, lsSettings, recency>>

\* clearAllCache(): every key that starts with bookreader_ is removed
ClearAllCache ==
    /\ MarkCounted("clear", NoBook, << >>)
    /\ lsProgress' = << >>
    /\ lsRecent' = << >>
    /\ lsBookmarks' = << >>
    /\ lsSettings' = NoSettings
    /\ recency' = << >>
    /\ MarkFrame
    /\ UNCHANGED bookmarks

\* updateSettings(newSettings): saveReaderSettings(settings)
UpdateSettings(m) ==
    /\ UserCounted
    /\ lsSettings' = [mode |-> m]
    /\ syncCall' = NoCall
    /\ lastSaved' = NoSave
    /\ UNCHANGED <<lsProgress, lsRecent, lsBookmarks, storeVars, pushVars,
                   cloud, clock, unhandled, recency, fillers, markOp, hook,
                   serverVars>>

\* the ids a removeBookmark call may name: those of the bookmarks shown or
\* stored for the current book
ShownIds ==
    {bookmarks[i].id : i \in DOMAIN bookmarks}
        \cup {GetBookmarks(currentBook)[i].id :
                 i \in DOMAIN GetBookmarks(currentBook)}

\* the calls of one sitting, bookmark calls and the others together
Sitting == nEvents + markOp.n < MaxMarkSteps

BookmarkNext ==
    \/ Sitting /\ \E b \in Books : SetCurrentBook(b)
    \/ Sitting /\ \E p \in PageChoices : SetCurrentPage(p)
    \/ Sitting /\ \E note \in Notes : AddBookmark(note)
    \/ Sitting /\ \E id \in ShownIds : RemoveBookmark(id)
    \/ Sitting /\ ClearAllCache
    \/ Sitting /\ \E m \in Modes : UpdateSettings(m)
    \/ Sitting /\ \E b \in Books : AddToRecentBooks(b)
    \/ Sitting /\ RestoreSession
    \/ \E i \in 1 .. MaxInflight : RespondFailure(i)
    \/ \E i \in 1 .. MaxInflight, l \in Listings(cloud) : PullResponse(i, l)
    \/ \E i \in 1 .. MaxInflight : PushOneResponse(i)
    \/ Sitting /\ \E b \in Books, p \in RemotePages, t \in TotalChoices,
                     bms \in BookmarkLists, skew \in ClockSkews :
                     OtherDevicePush(b, p, t, bms, skew)
    \/ Sitting /\ \E d \in ClientTickSteps : ClientTick(d)

\* one device: its bookmarks among the other writers of localStorage
BookmarkSpec == Init /\ [][BookmarkNext]_vars

(***************************************************************************)
(* useReadingProgress: the auto-save interval and the save-on-page-change  *)
(* effect of the component that shows the reader.                          *)
(***************************************************************************)
AUTO_SAVE_MS == 30000

\* the step of the clock and how far it runs while the hook is followed
HookTick == AUTO_SAVE_MS \div 2
HookHorizon == ClockStart + MaxHookTicks * HookTick

HookFrame ==
    UNCHANGED <<lsBookmarks, lsSettings, storeVars, cloud, clock, unhandled,
                fillers, markOp, serverVars>>

\* the component that calls useReadingProgress is rendered
Mount ==
    /\ UserCounted
    /\ ~hook.mounted
    /\ hook' = [hook EXCEPT !.mounted = TRUE, !.due = clock + AUTO_SAVE_MS,
                            !.deps = <<NoBook, 0>>]
    /\ syncCall' = NoCall
    /\ lastSaved' = NoSave
    /\ UNCHANGED <<lsProgress, lsRecent, recency, pushVars>>
    /\ HookFrame

\* the component goes away: the cleanup clears the interval
Unmount ==
    /\ UserCounted
    /\ hook.mounted
    /\ hook' = [hook EXCEPT !.mounted = FALSE]
    /\ syncCall' = NoCall
    /\ lastSaved' = NoSave
    /\ UNCHANGED <<lsProgress, lsRecent, recency, pushVars>>
    /\ HookFrame

\* the effects run after a render in which currentBook or currentPage has
\* changed: the interval is set anew for another book, and saveProgress() is
\* called when a book is open and currentPage > 0
RunEffects ==
    /\ hook.mounted
    /\ hook.deps # <<currentBook, currentPage>>
    /\ IF currentBook # NoBook /\ currentPage > 0
       THEN SaveProgressBody(currentPage)
       ELSE /\ syncCall' = NoCall
            /\ lastSaved' = NoSave
            /\ UNCHANGED <<lsProgress, lsRecent, recency, pushVars>>
    /\ hook' = [hook EXCEPT
                  !.deps = <<currentBook, currentPage>>,
                  !.due = IF hook.deps[1] # currentBook
                          THEN clock + AUTO_SAVE_MS ELSE @,
                  !.wrote = IF currentBook # NoBook /\ currentPage > 0
                               /\ totalPages > 0
                               /\ hook.deps[1] = currentBook
                            THEN clock ELSE @]
    /\ HookFrame
    /\ UNCHANGED nEvents

\* the setInterval callback: saveProgress()
AutoSave ==
    /\ hook.mounted
    /\ currentBook # NoBook
    /\ clock >= hook.due
    /\ SaveProgressBody(currentPage)
    /\ hook' = [hook EXCEPT !.due = clock + AUTO_SAVE_MS]
    /\ HookFrame
    /\ UNCHANGED nEvents

\* time passes
HookClock ==
    /\ clock < HookHorizon
    /\ clock' = clock + HookTick
    /\ syncCall' = NoCall
    /\ lastSaved' = NoSave
    /\ UNCHANGED <<lsProgress, lsRecent, lsBookmarks, storeVars, pushVars,
                   cloud, unhandled, recency, boundVars, nEvents, serverVars>>

\* the calls the reader still makes, and the book that is read
Reading == nEvents < MaxHookEvents
HookBooks == {1}

HookNext ==
    \/ Reading /\ \E b \in HookBooks : SetCurrentBook(b)
    \/ Reading /\ \E p \in PageChoices : SetCurrentPage(p)
    \/ Reading /\ Mount
    \/ Reading /\ Unmount
    \/ Reading /\ RestoreSession
    \/ RunEffects
    \/ AutoSave
    \/ \E i \in 1 .. MaxInflight, l \in Listings(cloud) : PullResponse(i, l)
    \/ \E i \in 1 .. MaxInflight : PushOneResponse(i)
    \/ HookClock

\* the reader of one authenticated device whose remote calls succeed: the
\* timer fires, the effects run, the calls are answered and time passes
HookSpec ==
    /\ Init /\ [][HookNext]_vars
    /\ WF_vars(RunEffects)
    /\ WF_vars(AutoSave)
    /\ WF_vars(\E i \in 1 .. MaxInflight, l \in Listings(cloud) :
                   PullResponse(i, l))
    /\ WF_vars(\E i \in 1 .. MaxInflight : PushOneResponse(i))
    /\ WF_vars(HookClock)

(***************************************************************************)
(* The progress routes of /auth: GET /progress and POST /sync, over the    *)
(* cache (keys user:<id>:progress:<bookId>) and over the database (table   *)
(* reading_progress).                                                      *)
(***************************************************************************)
MaxRequests == 2
MaxListLen == 2

JWT_SECRET == "your-secret-key-change-in-production"
\* the ttl of a progress key is a year (60 * 60 * 24 * 365); a year of
\* milliseconds exceeds the 32-bit integers of the checker, so the model
\* takes twenty days, which no run of it outlasts either
PROGRESS_TTL == 60 * 60 * 24 * 20

\* the rows of the users table; the ghost holds a token but has no row
Users == {"u1", "u2"}
GhostUser == "u0"

\* jwt.sign({ userId }, secret, { expiresIn }), and the token once the
\* seven days of JWT_EXPIRY are over
JwtSign(u, secret) == [userId |-> u, secret |-> secret, expired |-> FALSE]

Expired(t) == [t EXCEPT !.expired = TRUE]

\* req.headers.authorization
NoHeader == <<"none", JwtSign("u1", "forged")>>

\* no header, another scheme, a token signed with another secret, a token
\* that has expired
BadHeaders == {NoHeader, <<"Basic ", JwtSign("u1", JWT_SECRET)>>,
               <<"Bearer ", JwtSign("u1", "forged")>>,
               <<"Bearer ", Expired(JwtSign("u1", JWT_SECRET))>>}

GoodHeaders == {<<"Bearer ", JwtSign(u, JWT_SECRET)>> : u \in Users \cup {GhostUser}}

Headers == BadHeaders \cup GoodHeaders

StartsWithBearer_AnyScheme(h) == h # NoHeader

\* authHeader?.startsWith('Bearer ')
StartsWithBearer(h) == h[1] = "Bearer "

\* jwt.verify(token, JWT_SECRET) does not throw
JwtVerify(t) == t.secret = JWT_SECRET /\ ~t.expired

\* the entries api.syncProgress sends: the records saveProgress builds
SyncEntry(b, p, bms) == MakeProgress(b, p, 8, bms, p)

SyncEntries == {SyncEntry(1, 1, << >>), SyncEntry(1, 2, <<"m1">>),
                SyncEntry(2, 1, << >>)}

\* the lists a request may carry: entries in any order, none of them twice
SyncLists ==
    {l \in UNION {[1 .. n -> SyncEntries] : n \in 0 .. MaxListLen} :
        \A i, j \in 1 .. Len(l) : i # j => l[i] # l[j]}

\* req.body: progress is an array, or is not
SyncBodies == {[isArray |-> TRUE, items |-> l] : l \in SyncLists}
                 \cup {[isArray |-> FALSE, items |-> << >>]}

\* the body sent along with a bad header
ProbeBodies == {[isArray |-> TRUE, items |-> <<SyncEntry(1, 2, <<"m1">>)>>]}

Requests == (GoodHeaders \X SyncBodies) \cup (BadHeaders \X ProbeBodies)

\* the last request and its answer
Answer(route, variant, h, body, status, progress, synced) ==
    [route |-> route, variant |-> variant, header |-> h, body |-> body,
     status |-> status, progress |-> progress, synced |-> synced]

\* the server has been started with one of the two versions of the routes
Deployed(v) == response.route # "none" /\ response.variant = v

Deploy(v) ==
    /\ response.route = "none"
    /\ response' = [route |-> "start", variant |-> v]
    /\ UNCHANGED <<dbProgress, nReqs, primary, memoryCache>>
    /\ UNCHANGED <<client, isConnected, primaryUp, now, nextSweep, pending,
                   lastOp, setLog, sess, ups, nOps, nSteps, nFlips, clientVars>>

Requested ==
    /\ nReqs < MaxRequests
    /\ nReqs' = nReqs + 1

RouteFrame ==
    UNCHANGED <<client, isConnected, primaryUp, now, nextSweep, pending,
                lastOp, setLog, sess, ups, nOps, nSteps, nFlips, clientVars>>

\* ---- over the database ----
ToRow(u, item) ==
    [user_id |-> u, book_id |-> item.bookId,
     current_page |-> item.currentPage, total_pages |-> item.totalPages,
     percentage |-> item.percentage, last_read |-> item.lastRead]

FromRow(r) ==
    [bookId |-> r.book_id, currentPage |-> r.current_page,
     totalPages |-> r.total_pages, percentage |-> r.percentage,
     lastRead |-> r.last_read]

SaveProgressStmt_InsertOrIgnore(table, u, item) ==
    IF <<u, item.bookId>> \in DOMAIN table
    THEN table
    ELSE With(table, <<u, item.bookId>>, ToRow(u, item))

\* stmts.saveProgress: INSERT ... ON CONFLICT(user_id, book_id) DO UPDATE
SaveProgressStmt(table, u, item) ==
    With(table, <<u, item.bookId>>, ToRow(u, item))

\* the loop of saveProgressBatch from the i-th item on
RECURSIVE SaveProgressLoop(_, _, _, _)
SaveProgressLoop(table, u, items, i) ==
    IF i > Len(items)
    THEN table
    ELSE SaveProgressLoop(SaveProgressStmt(table, u, items[i]), u, items, i + 1)

\* saveProgressBatch: one transaction; the foreign key of user_id fails the
\* first insert for a user without a row, and the transaction rolls back
SaveProgressBatch(table, u, items) ==
    IF u \notin Users /\ Len(items) > 0
    THEN [threw |-> TRUE, table |-> table]
    ELSE [threw |-> FALSE, table |-> SaveProgressLoop(table, u, items, 1)]

\* getAllProgress(userId)
GetAllProgress(table, u) == {table[k] : k \in {x \in DOMAIN table : x[1] = u}}

\* POST /sync over the database
PostSyncDb(h, body) ==
    /\ Deployed("db")
    /\ Requested
    /\ IF ~StartsWithBearer(h) \/ ~JwtVerify(h[2])
       THEN /\ response' = Answer("POST /sync", "db", h, body, 401, {}, 0)
            /\ UNCHANGED dbProgress
       ELSE IF ~body.isArray
       THEN /\ response' = Answer("POST /sync", "db", h, body, 400, {}, 0)
            /\ UNCHANGED dbProgress
       ELSE LET r == SaveProgressBatch(dbProgress, h[2].userId, body.items) IN
            IF r.threw
            THEN /\ response' = Answer("POST /sync", "db", h, body, 401, {}, 0)
                 /\ UNCHANGED dbProgress
            ELSE /\ response' = Answer("POST /sync", "db", h, body, 200, {},
                                       Len(body.items))
                 /\ dbProgress' = r.table
    /\ UNCHANGED <<primary, memoryCache>>
    /\ RouteFrame

\* GET /progress over the database
GetProgressDb(h) ==
    /\ Deployed("db")
    /\ Requested
    /\ response' =
          IF ~StartsWithBearer(h) \/ ~JwtVerify(h[2])
          THEN Answer("GET /progress", "db", h, << >>, 401, {}, 0)
          ELSE Answer("GET /progress", "db", h, << >>, 200,
                      {FromRow(r) : r \in GetAllProgress(dbProgress, h[2].userId)},
                      0)
    /\ UNCHANGED <<dbProgress, primary, memoryCache>>
    /\ RouteFrame

\* ---- over the cache ----
ProgressKey(u, b) == <<"progress", u, b>>

\* the loop of cache.set calls of POST /sync from the i-th entry on
RECURSIVE SetEach(_, _, _, _, _)
SetEach(prim, mem, u, items, i) ==
    IF i > Len(items)
    THEN [prim |-> prim, mem |-> mem]
    ELSE LET r == CacheSetOn(prim, mem, ProgressKey(u, items[i].bookId),
                             items[i], PROGRESS_TTL, primaryUp)
         IN SetEach(r.prim, r.mem, u, items, i + 1)

\* cache.getByPattern('user:<id>:progress:*'): the values under the matching
\* keys of the tier that serves
GetByPattern(u) ==
    LET tier == IF isConnected /\ client /\ primaryUp
                THEN primary ELSE memoryCache
    IN {Parse(tier[k].data) :
          k \in {x \in DOMAIN tier :
                   /\ x[1] = "progress" /\ x[2] = u
                   /\ tier[x].expiry > now}}

\* POST /sync over the cache
PostSyncCache(h, body) ==
    /\ Deployed("cache")
    /\ Requested
    /\ IF ~StartsWithBearer(h) \/ ~JwtVerify(h[2])
       THEN /\ response' = Answer("POST /sync", "cache", h, body, 401, {}, 0)
            /\ UNCHANGED <<primary, memoryCache>>
       ELSE IF ~body.isArray
       THEN /\ response' = Answer("POST /sync", "cache", h, body, 400, {}, 0)
            /\ UNCHANGED <<primary, memoryCache>>
       ELSE LET r == SetEach(primary, memoryCache, h[2].userId, body.items, 1)
            IN /\ response' = Answer("POST /sync", "cache", h, body, 200, {},
                                      Len(body.items))
               /\ primary' = r.prim
               /\ memoryCache' = r.mem
    /\ UNCHANGED dbProgress
    /\ RouteFrame

\* GET /progress over the cache
GetProgressCache(h) ==
    /\ Deployed("cache")
    /\ Requested
    /\ response' =
          IF ~StartsWithBearer(h) \/ ~JwtVerify(h[2])
          THEN Answer("GET /progress", "cache", h, << >>, 401, {}, 0)
          ELSE Answer("GET /progress", "cache", h, << >>, 200,
                      GetByPattern(h[2].userId), 0)
    /\ UNCHANGED <<dbProgress, primary, memoryCache>>
    /\ RouteFrame

RouteNext ==
    \/ \E v \in {"db", "cache"} : Deploy(v)
    \/ \E r \in Requests : PostSyncDb(r[1], r[2])
    \/ \E h \in Headers : GetProgressDb(h)
    \/ \E r \in Requests : PostSyncCache(r[1], r[2])
    \/ \E h \in Headers : GetProgressCache(h)
    \/ PrimaryFail
    \/ PrimaryRecover
    \/ ErrorCallback
    \/ ConnectCallback

\* the progress routes under requests of two users and changes of the
\* connectivity of the primary
RouteSpec == Init /\ [][RouteNext]_vars

TimeNext ==
    \/ \E d \in TickSteps : Tick(d)
    \/ Sweep
    \/ \E n \in QuietSweeps : Quiet(n)

PrimaryNext ==
    \/ PrimaryFail
    \/ PrimaryRecover
    \/ ErrorCallback
    \/ ConnectCallback

CacheNext ==
    \/ \E v \in Values, ttl \in TTLs : Set(BookKey, v, ttl)
    \/ Get(BookKey)
    \/ Del(BookKey)
    \/ PrimaryNext
    \/ TimeNext

\* s2 is the control session: it is created and read, never touched, idled
\* or ended
SessionNext ==
    \/ \E s \in SessionIds, v \in SessionValues : SetSessionData(s, v)
    \/ \E s \in SessionIds : GetSessionData(s)
    \/ \E s \in Subjects : DeleteSession(s)
    \/ \E s \in Subjects : UpdateActivityRead(s)
    \/ \E s \in Subjects : UpdateActivityWrite(s)
    \/ \E s \in Subjects : MarkInactiveRead(s)
    \/ \E s \in Subjects : MarkInactiveWrite(s)
    \/ PrimaryNext
    \/ TimeNext

\* one session on its own: created, read, touched and ended
TouchNext ==
    \/ \E s \in Subjects, v \in SessionValues : SetSessionData(s, v)
    \/ \E s \in Subjects : GetSessionData(s)
    \/ \E s \in Subjects : DeleteSession(s)
    \/ \E s \in Subjects : UpdateActivityRead(s)
    \/ \E s \in Subjects : UpdateActivityWrite(s)
    \/ PrimaryNext
    \/ TimeNext

\* the tiered cache under get / set / del of one key
CacheSpec == Init /\ [][CacheNext]_vars

\* the session helpers over the tiered cache
SessionSpec == Init /\ [][SessionNext]_vars

\* the touch of one session over the tiered cache
TouchSpec == Init /\ [][TouchNext]_vars

\* the primary comes back from the outage that used up the flips
PrimaryReturn ==
    /\ ~primaryUp
    /\ nFlips = MaxFlips
    /\ ups = 0
    /\ primaryUp' = TRUE
    /\ ups' = ups + 1
    /\ EnvFrame
    /\ UNCHANGED <<isConnected, nFlips>>

OutageNext ==
    \/ CacheNext
    \/ PrimaryReturn

\* the tiered cache through an outage of the primary and its end
OutageSpec == Init /\ [][OutageNext]_vars

(***************************************************************************)
(* Properties of the tiered cache.                                         *)
(***************************************************************************)
\* what get(session key) returns in the current state
Read(s) == CacheGet(SessionKey(s), primaryUp).val

\* C1: while the primary has not come back after becoming unreachable, a get
\* of a key issued after a set of that key and before the ttl of that set
\* elapses returns the value that was set, whichever tier served either call.
C1_FailoverTransparency ==
    (/\ lastOp.op = "get"
     /\ ups = 0
     /\ lastOp.key \in DOMAIN setLog
     /\ now < setLog[lastOp.key].until)
    => lastOp.val = setLog[lastOp.key].val

\* C2: get, set and del never raise to their caller, whatever the state of
\* the primary; a read that fails on the primary while the flag still says
\* connected is answered by the fallback map.
C2_NeverThrows ==
    /\ ~lastOp.threw
    /\ (lastOp.op = "get" /\ isConnected /\ ~primaryUp)
       => lastOp.tier = "fallback"

C2_Witness ==
    /\ lastOp.op = "get"
    /\ isConnected /\ ~primaryUp
    /\ lastOp.tier = "fallback"
    /\ lastOp.val # Null

\* C9: of two identical sessions created together and not touched since, the
\* one on which markInactive was called more than the inactive TTL ago reads
\* as absent while the other still reads as present, as long as the active
\* TTL since their creation has not elapsed.
C9_IdleShrink ==
    \A s1 \in SessionIds, s2 \in SessionIds :
        (/\ s1 # s2
         /\ sess[s1].created >= 0
         /\ sess[s1].created = sess[s2].created
         /\ sess[s1].body = sess[s2].body
         /\ ~sess[s1].touched /\ ~sess[s2].touched
         /\ sess[s1].idled >= 0 /\ sess[s2].idled = -1
         /\ pending[s1] = NoPending
         /\ now > sess[s1].idled + INACTIVE_TTL * 1000
         /\ now < sess[s1].created + SESSION_TTL * 1000)
        => (Read(s1) = Null /\ Read(s2) # Null)

\* C10: a get served by the fallback map returns only an entry whose expiry
\* is still ahead; an entry is not held beyond one sweep interval after its
\* expiry; a set served by the fallback map leaves exactly the new value and
\* the new expiry under the key.
C10_TTLEviction ==
    /\ (lastOp.op = "get" /\ lastOp.tier = "fallback" /\ lastOp.val # Null)
       => /\ lastOp.key \in DOMAIN memoryCache
          /\ memoryCache[lastOp.key].expiry > now
          /\ Parse(memoryCache[lastOp.key].data) = lastOp.val
    /\ \A k \in DOMAIN memoryCache :
          now <= memoryCache[k].expiry + SWEEP_INTERVAL_MS
    /\ (lastOp.op = "set" /\ lastOp.tier = "fallback")
       => /\ lastOp.key \in DOMAIN memoryCache
          /\ memoryCache[lastOp.key] =
                Entry(Stringify(lastOp.val), now + lastOp.ttl * 1000)

\* a get of the fallback map at the very expiry of the entry set there
C10_Witness ==
    /\ lastOp.op = "get" /\ lastOp.tier = "fallback" /\ lastOp.val = Null
    /\ lastOp.key \in DOMAIN setLog
    /\ setLog[lastOp.key].until = now
    /\ nSteps > 0

\* the tier a get is served by in the current state
Served == IF isConnected /\ client /\ primaryUp THEN primary ELSE memoryCache

\* the step is the write of the touch / of the markInactive of session s
TouchWrites(s) == pending[s].op = "touch" /\ pending'[s] = NoPending

IdleWrites(s) == pending[s].op = "idle" /\ pending'[s] = NoPending

\* C11 as stated: the record read back after a touch equals the record the
\* touch read.
C11_TouchPayloadUnchanged ==
    [][\A s \in Subjects : TouchWrites(s) => Read(s)' = pending[s].data]_vars

\* C11 amended: a touch of a present session writes back the payload it read
\* with lastActivity set to the time of the write, under an expiry of that
\* time plus the active TTL; a session helper that reads the session as
\* absent writes nothing.
C11_TouchStampsActivity ==
    [][\A s \in Subjects :
        /\ TouchWrites(s) =>
              /\ Read(s)' = [pending[s].data EXCEPT !.lastActivity = now]
              /\ Read(s)'.body = pending[s].data.body
              /\ SessionKey(s) \in DOMAIN Served'
              /\ Served'[SessionKey(s)].expiry = now + SESSION_TTL * 1000
        /\ (/\ lastOp'.op = "get" /\ lastOp'.key = SessionKey(s)
            /\ lastOp'.val = Null)
           => /\ pending'[s] = pending[s]
              /\ primary' = primary
              /\ DOMAIN memoryCache' \subseteq DOMAIN memoryCache
              /\ setLog' = setLog]_vars

\* a touch made after the clock has advanced has stamped the session, and a
\* later touch has found a session absent
C11_Witness ==
    /\ lastOp.op = "set" /\ lastOp.ttl = SESSION_TTL
    /\ lastOp.key = SessionKey("s1")
    /\ now > 0
    /\ lastOp.val.lastActivity = now
    /\ Read("s1").lastActivity = now

\* a touch has read its session as absent after the session had been set
C11_AbsentWitness ==
    /\ lastOp.op = "get" /\ lastOp.val = Null
    /\ sess["s1"].touched /\ sess["s1"].created >= 0
    /\ pending["s1"] = NoPending

\* C12: markInactive never moves the expiry of a present session to a later
\* time and leaves its payload as it was.
C12_IdleOnlyShortens ==
    [][\A s \in Subjects :
        (IdleWrites(s) /\ Read(s) # Null) =>
            /\ Served'[SessionKey(s)].expiry <= Served[SessionKey(s)].expiry
            /\ Read(s)' = Read(s)]_vars

\* C17: no key has an unexpired entry in the primary and in the fallback
\* map at the same time.
C17_TierExclusive ==
    \A k \in (DOMAIN primary) \cap (DOMAIN memoryCache) :
        ~(primary[k].expiry > now /\ memoryCache[k].expiry > now)

(***************************************************************************)
(* Properties of the local store and of the sync service.                  *)
(***************************************************************************)
Later(r, l) == r.lastRead[2] > l.lastRead[2]

\* C3: when pullAndMergeProgress completes, the local store holds, for each
\* book, the remote record in full if there was no local record or the
\* remote lastRead is strictly later than the local one, and otherwise the
\* local record (or no record) it held before.
C3_MergeLastWriterWins ==
    [][(syncCall'.op = "pull" /\ syncCall'.outcome = "ok") =>
        \A b \in Books :
            IF b \in DOMAIN cloud
               /\ (b \notin DOMAIN lsProgress \/ Later(cloud[b], lsProgress[b]))
            THEN b \in DOMAIN lsProgress' /\ lsProgress'[b] = cloud[b]
            ELSE IF b \in DOMAIN lsProgress
                 THEN b \in DOMAIN lsProgress' /\ lsProgress'[b] = lsProgress[b]
                 ELSE b \notin DOMAIN lsProgress']_vars

\* a pull has replaced a local record by the later remote one
C3_Witness ==
    /\ syncCall.op = "pull" /\ syncCall.outcome = "ok"
    /\ syncCall.replaced

\* C4: a pushSingleProgress called sooner than the throttle window after the
\* last one that was sent returns false and sends nothing; one called once
\* the window has elapsed, no pushAllProgress having completed since, is sent.
C4_PushThrottling ==
    [][(syncCall'.op = "pushOne" /\ syncCall'.outcome \in {"false", "sent"}
        /\ lastOneAt >= 0) =>
        /\ (clock - lastOneAt < CLOUD_PUSH_THROTTLE_MS)
           => (/\ syncCall'.outcome = "false"
               /\ inflight' = inflight
               /\ cloud' = cloud)
        /\ (clock - lastOneAt >= CLOUD_PUSH_THROTTLE_MS /\ ~allSince)
           => (/\ syncCall'.outcome = "sent"
               /\ Len(inflight') = Len(inflight) + 1)]_vars

\* a second call, later than the first and inside its window, was suppressed
C4_Witness ==
    /\ syncCall.op = "pushOne" /\ syncCall.outcome = "false"
    /\ lastOneAt >= 0
    /\ clock > lastOneAt
    /\ clock - lastOneAt < CLOUD_PUSH_THROTTLE_MS
    /\ ~allSince

\* C5 as stated: no sync function rejects to its caller.
C5_SyncCatchesItself == syncCall.outcome # "rejected"

\* C5 amended: a failed remote call makes the sync function reject, leaves
\* the local store as it was, and the rejection is discarded by the caller
\* in the store.
C5_CallerCatches ==
    [][(syncCall'.outcome = "rejected") =>
        /\ lsProgress' = lsProgress
        /\ lsRecent' = lsRecent
        /\ lsBookmarks' = lsBookmarks
        /\ ~unhandled']_vars

C5_Witness ==
    /\ syncCall.outcome = "rejected"
    /\ syncCall.op = "pushAll"
    /\ DOMAIN lsProgress # {}

\* the percentage of a record, from its pages: the integer nearest to
\* 100 * p / t, halves going up
DerivedPercentage(p, t) ==
    IF t > 0
    THEN ((100 * p) \div t) + (IF 2 * ((100 * p) % t) >= t THEN 1 ELSE 0)
    ELSE 0

Occurrences(list, b) == Cardinality({i \in 1 .. Len(list) : list[i].id = b})

IsFirstOnce(list, b, pct) ==
    /\ Len(list) >= 1
    /\ list[1].id = b
    /\ Occurrences(list, b) = 1
    /\ list[1].progress = pct

\* C7 as stated: after saveReadingProgress(B, r), B is the first entry of the
\* recent list, once, with r.percentage, whether or not B was in the list.
C7_SavedBookFirst ==
    lastSaved.book # NoBook
    => IsFirstOnce(lsRecent, lastSaved.book, lastSaved.pct)

\* C7 amended: that holds when B was in the list; when it was not, B is not
\* in the list afterwards either.
C7_SavedListedBookFirst ==
    lastSaved.book # NoBook
    => IF lastSaved.listed
       THEN IsFirstOnce(lsRecent, lastSaved.book, lastSaved.pct)
       ELSE Occurrences(lsRecent, lastSaved.book) = 0

\* a book saved from further down a full list
C7_Witness ==
    /\ lastSaved.book # NoBook /\ lastSaved.listed
    /\ Len(lsRecent) = RECENT_CAP
    /\ lsRecent[2].id \in FillerBooks

\* C8: the recent list never exceeds its cap, names no book twice, and lists
\* its books in the order of their last add or save, most recent first.
C8_RecentBounded ==
    /\ Len(lsRecent) <= RECENT_CAP
    /\ \A i, j \in 1 .. Len(lsRecent) :
          i # j => lsRecent[i].id # lsRecent[j].id
    /\ [i \in 1 .. Len(lsRecent) |-> lsRecent[i].id]
        = SelectSeq(recency, LAMBDA b : Occurrences(lsRecent, b) > 0)

\* more books were added than the list can hold, one of them re-added
C8_Witness ==
    /\ Len(lsRecent) = RECENT_CAP
    /\ Len(recency) > RECENT_CAP
    /\ lsRecent[1].id \in Books
    /\ lsRecent[2].id \in FillerBooks /\ lsRecent[3].id \in Books

(***************************************************************************)
(* Further properties of the push throttle.                                *)
(***************************************************************************)
\* the step is a call of pushSingleProgress
PushOneCalled == syncCall'.op = "pushOne" /\ syncCall'.outcome \in {"false", "sent"}

Within(t) == t >= 0 /\ clock - t < CLOUD_PUSH_THROTTLE_MS

PushOneInFlight == \E i \in 1 .. Len(inflight) : inflight[i].kind = "pushOne"

\* C13: with no push awaiting its answer, a pushSingleProgress is suppressed
\* exactly when it is called sooner than the throttle interval after the
\* previous push whose remote call succeeded (a pushSingleProgress from its
\* call, a pushAllProgress from its completion); an attempt whose remote call
\* failed starts no window.
C13_FailedPushStartsNoWindow ==
    [][(PushOneCalled /\ ~PushOneInFlight) =>
        (syncCall'.outcome = "false"
            <=> (Within(lastOneOkAt) \/ Within(lastAllAt)))]_vars

\* C14 as stated: whether a pushSingleProgress is suppressed depends on the
\* earlier calls of pushSingleProgress only.
C14_ThrottlesIndependent ==
    [][PushOneCalled => (syncCall'.outcome = "false" => Within(lastOneAt))]_vars

\* C14 amended: pushAllProgress is never suppressed, by an earlier
\* pushSingleProgress or otherwise; a pushAllProgress that completes, with an
\* empty or a non-empty local set, starts a throttle window of its own: a
\* pushSingleProgress called within it is suppressed.
C14_PushAllStartsWindow ==
    [][/\ (PushOneCalled /\ Within(lastAllAt))
          => (/\ syncCall'.outcome = "false"
              /\ inflight' = inflight
              /\ cloud' = cloud)
       /\ (syncCall'.op = "pushAll" /\ syncCall'.outcome = "sent")
          => IF DOMAIN lsProgress # {}
             THEN /\ Len(inflight') = Len(inflight) + 1
                  /\ inflight'[Len(inflight')].kind = "pushAll"
                  /\ inflight'[Len(inflight')].list = lsProgress
             ELSE lastAllAt' = clock
       /\ (/\ syncCall'.op = "pull" /\ syncCall'.outcome = "ok"
           /\ \E i \in 1 .. Len(inflight) :
                 inflight[i].kind = "pull" /\ inflight[i].caller = "login")
          => IF DOMAIN lsProgress' # {}
             THEN \E j \in 1 .. Len(inflight') :
                     /\ inflight'[j].kind = "pushAll"
                     /\ inflight'[j].list = lsProgress'
             ELSE lastAllAt' = clock]_vars

\* the first pushSingleProgress ever called was suppressed, inside the window
\* of a pushAllProgress that had sent a non-empty set
C14_Witness ==
    /\ syncCall.op = "pushOne" /\ syncCall.outcome = "false"
    /\ lastOneAt = -1
    /\ Within(lastAllAt)
    /\ DOMAIN cloud # {}

\* C18: for each book, the lastRead of the record of the local store never
\* decreases.
C18_LastReadMonotonic ==
    [][\A b \in DOMAIN lsProgress :
          /\ b \in DOMAIN lsProgress'
          /\ DateOf(lsProgress'[b].lastRead) >= DateOf(lsProgress[b].lastRead)]_vars

(***************************************************************************)
(* Properties of the progress routes.                                      *)
(***************************************************************************)
\* the record the server holds for user u and book b: the row of the table,
\* or what a get of the key returns; Null for none
Held(v, u, b) ==
    IF v = "db"
    THEN IF <<u, b>> \in DOMAIN dbProgress
         THEN FromRow(dbProgress[<<u, b>>]) ELSE Null
    ELSE CacheGet(ProgressKey(u, b), primaryUp).val

\* the last entry of the list P for book b
LastOf(P, b) ==
    P[CHOOSE i \in 1 .. Len(P) :
         /\ P[i].bookId = b
         /\ \A j \in (i + 1) .. Len(P) : P[j].bookId # b]

\* the step is a request to a progress route
Answered(route) == nReqs' = nReqs + 1 /\ response'.route = route

\* the fields of interface ReadingProgress of the routes
Declared(r) ==
    [bookId |-> r.bookId, currentPage |-> r.currentPage,
     totalPages |-> r.totalPages, percentage |-> r.percentage,
     lastRead |-> r.lastRead]

\* the step is the POST /sync of a list by user u, version v serving
Synced(u, v) ==
    /\ Answered("POST /sync")
    /\ response'.variant = v
    /\ response'.header = <<"Bearer ", JwtSign(u, JWT_SECRET)>>
    /\ response'.body.isArray

\* the list that the request of the step carries
Posted == response'.body.items

C16_RejectsWithoutChange ==
    [][(nReqs' = nReqs + 1) =>
        /\ (response'.header \in BadHeaders)
           => /\ response'.status = 401
              /\ response'.progress = {}
              /\ response'.synced = 0
              /\ dbProgress' = dbProgress
              /\ primary' = primary
              /\ memoryCache' = memoryCache
        /\ (/\ response'.route = "POST /sync"
            /\ response'.header \in GoodHeaders
            /\ ~response'.body.isArray)
           => /\ response'.status = 400
              /\ dbProgress' = dbProgress
              /\ primary' = primary
              /\ memoryCache' = memoryCache]_vars

\* a POST /sync under another scheme than Bearer was refused while records
\* were stored
C16_Witness ==
    /\ response.route = "POST /sync" /\ response.status = 401
    /\ response.header[1] = "Basic "
    /\ response.body.isArray /\ Len(response.body.items) > 0
    /\ (DOMAIN dbProgress # {} \/ DOMAIN primary # {} \/ DOMAIN memoryCache # {})


(***************************************************************************)
(* Properties of the bookmarks                                             *)
(***************************************************************************)
RECURSIVE IsSubseq(_, _)
\* a is what is left of b when some of b's elements are dropped
IsSubseq(a, b) ==
    IF a = << >> THEN TRUE
    ELSE IF b = << >> THEN FALSE
    ELSE IF Head(a) = Head(b) THEN IsSubseq(Tail(a), Tail(b))
    ELSE IsSubseq(a, Tail(b))

RECURSIVE OfOtherIds(_, _)
\* the bookmarks of the list that carry another id than id, in their order
OfOtherIds(list, id) ==
    IF list = << >> THEN << >>
    ELSE IF Head(list).id = id THEN OfOtherIds(Tail(list), id)
    ELSE <<Head(list)>> \o OfOtherIds(Tail(list), id)

\* the step is a bookmark or clear-all call
MarkCalled == markOp' # markOp

\* C19: over every step the bookmarks stored for a book stay, in their
\* order: saveProgress, pullAndMerge, addToRecentBooks, saveSettings and a
\* bookmark call on another book leave all of them, removeBookmark(book, id)
\* leaves all those of another id, and only clear-all may drop any other.
C19_BookmarkPersists ==
    [][\A b \in Books :
          IF MarkCalled /\ markOp'.op = "clear"
          THEN TRUE
          ELSE IF MarkCalled /\ markOp'.op = "remove" /\ markOp'.book = b
          THEN IsSubseq(OfOtherIds(GetBookmarks(b), markOp'.id),
                        GetBookmarks(b)')
          ELSE IsSubseq(GetBookmarks(b), GetBookmarks(b)')]_vars

\* a bookmark was added, the settings were saved, and pullAndMerge has just
\* adopted the remote record of the book
C19_Witness ==
    \E b \in Books :
        /\ GetBookmarks(b) # << >>
        /\ markOp.op = "add"
        /\ syncCall.op = "pull"
        /\ syncCall.outcome = "ok"
        /\ b \in DOMAIN lsProgress
        /\ b \in DOMAIN cloud
        /\ lsProgress[b].lastRead = cloud[b].lastRead
        /\ lsSettings # NoSettings

\* C20: the bookmarks stored for a book have pairwise distinct ids.
C20_BookmarkIdsDistinct ==
    \A b \in DOMAIN lsBookmarks :
        \A i, j \in DOMAIN lsBookmarks[b] :
            i # j => lsBookmarks[b][i].id # lsBookmarks[b][j].id

(***************************************************************************)
(* Further properties of the session helpers and of the tiered cache       *)
(***************************************************************************)
\* C21: a touch or a markInactive that had read the session before the
\* session was ended writes nothing: when its write is the step that follows
\* the del of the session key, the session is absent after it.
C21_EndedStaysAbsent ==
    [][\A s \in Subjects :
        (/\ TouchWrites(s) \/ IdleWrites(s)
         /\ lastOp.op = "del" /\ lastOp.key = SessionKey(s)
         /\ Read(s) = Null)
        => Read(s)' = Null]_vars

\* C22: a get of a key that was deleted and not set since (setLog holds the
\* keys set and not deleted since) returns absent, whatever the primary did
\* before, during and after the del.
C22_DeletedStaysAbsent ==
    (lastOp.op = "get" /\ lastOp.key \notin DOMAIN setLog)
        => lastOp.val = Null

EarlyTimes == {ClockStart + n * HookTick : n \in 0 .. (MaxHookTicks - 4)}

\* C24: a record of the book open in the reader whose pushSingleProgress was
\* suppressed, or a later record of that book, reaches the remote set.
C24_SuppressedEventuallySent ==
    \A b \in HookBooks, p \in PageChoices, t \in EarlyTimes :
        (/\ syncCall.op = "pushOne" /\ syncCall.outcome = "false"
         /\ hook.mounted
         /\ currentBook = b
         /\ b \in DOMAIN lsProgress
         /\ lsProgress[b].currentPage = p
         /\ DateOf(lsProgress[b].lastRead) = t)
        ~> (/\ b \in DOMAIN cloud
            /\ \/ DateOf(cloud[b].lastRead) > t
               \/ /\ DateOf(cloud[b].lastRead) = t
                  /\ cloud[b].currentPage = p)

\* C25: two writes of the progress record that the save-on-page-change
\* effect makes for changes of page of the open book are more than
\* SAVE_THROTTLE_MS apart.
C25_PageWritesThrottled ==
    [][(/\ hook'.deps # hook.deps
        /\ hook.deps[1] = currentBook
        /\ hook'.wrote = clock
        /\ lastSaved' # NoSave
        /\ hook.wrote >= 0)
       => clock - hook.wrote > SAVE_THROTTLE_MS]_vars

\* C26: every ProgressRecord in localStorage and every record of a push in
\* flight has currentPage >= 1 and totalPages >= 0.
C26_RecordsInRange ==
    /\ \A b \in DOMAIN lsProgress :
          lsProgress[b].currentPage >= 1 /\ lsProgress[b].totalPages >= 0
    /\ \A i \in 1 .. Len(inflight) :
          \A b \in DOMAIN inflight[i].list :
             /\ inflight[i].list[b].currentPage >= 1
             /\ inflight[i].list[b].totalPages >= 0

\* C27: register authenticates a user who is new, so no record that
\* localStorage holds when register is called was saved or merged under that
\* user; the push that register makes under the new credential carries none
\* of them.
C27_OnlyOwnRecordsPushed ==
    [][(/\ ~isAuthenticated
        /\ isAuthenticated'
        /\ syncCall'.op = "pushAll")
       => \A i \in 1 .. Len(inflight') :
             (inflight'[i].kind = "pushAll" /\ inflight'[i].caller = "register")
             => \A b \in DOMAIN inflight'[i].list :
                   ~(/\ b \in DOMAIN lsProgress
                     /\ inflight'[i].list[b] = lsProgress[b])]_vars

\* C28: the lastRead of the server's record of a book never decreases,
\* whichever device's push the server stores.
C28_ServerLastReadMonotonic ==
    [][\A b \in DOMAIN cloud :
          /\ b \in DOMAIN cloud'
          /\ DateOf(cloud'[b].lastRead) >= DateOf(cloud[b].lastRead)]_vars

\* C29: when the pullAndMergeProgress that has just answered adopted a
\* remote record for the open book, the saveProgress that follows at once
\* (no setCurrentPage in between) stores that record's currentPage.
C29_AdoptedPageKept ==
    [][(/\ syncCall.op = "pull" /\ syncCall.outcome = "ok"
        /\ currentBook # NoBook
        /\ lastSaved # NoSave /\ lastSaved.book = currentBook
        /\ syncCall'.op # "pull"
        /\ lastSaveTime' = lastSaveTime /\ currentPage' = currentPage
        /\ lastSaved' # NoSave)
       => lsProgress'[currentBook].currentPage
             = lsProgress[currentBook].currentPage]_vars

\* C30: for every book with a stored ProgressRecord, getBookmarks(bookId)
\* is the bookmarks list of that record.
C30_BookmarkCopiesAgree ==
    \A b \in DOMAIN lsProgress : GetBookmarks(b) = lsProgress[b].bookmarks

====
